---- MODULE Spec2Model ----
(***************************************************************************)
(* A model of chatbox2md: convert.js (the converter that `node convert.js` *)
(* runs) and the helper functions it is built from.                        *)
(*                                                                         *)
(* JavaScript values are records tagged by `kind`; a string is a sequence  *)
(* of one-character strings where its characters matter (file names) and   *)
(* an atom where they do not (message content, URLs).  An instant is a     *)
(* number of minutes since the epoch; a calendar day has DayLen minutes.   *)
(***************************************************************************)
EXTENDS Integers, Sequences, FiniteSets, TLC

VARIABLES
    now,            \* the wall clock: what Date.now() / new Date() returns
    \* --- sanitizeFileName applied to drawn inputs
    name,           \* the string handed to sanitizeFileName
    maxLength,      \* its maxLength argument
    sanitized,      \* the results of the successive calls, oldest first
    \* --- getSafeTimestamp / formatDate applied to drawn inputs
    timestamp,      \* the value handed to getSafeTimestamp
    safe,           \* NotCalled, or what getSafeTimestamp returned and when
    \* --- convertChatToMarkdown applied to drawn sessions
    chat,           \* the session handed to convertChatToMarkdown
    markdown,       \* NotCalled, or what convertChatToMarkdown returned and when
    \* --- parseCherryStudio applied to drawn files
    file,           \* the file at the path handed to the adapter
    parsed,         \* NotCalled, or how the adapter's call ended and when
    \* --- saveChatsToMarkdown applied to drawn session lists
    chats,          \* the sessions handed to saveChatsToMarkdown
    saved,          \* NotCalled, or what the call wrote, how it ended and when
    \* --- a run of convert.js
    pc,             \* where main() is: "start", "menu", "selected", "done", "exited"
    dirCherry,      \* the files of input_cherry, in readdirSync order
    dirChatbox,     \* the files of input_chatbox, in readdirSync order
    cherryFiles,    \* main's cherryFiles
    chatboxFiles,   \* main's chatboxFiles
    selectedIndex,  \* the menu's selectedIndex
    selection,      \* what showFileSelectionMenu resolved with (Undefined before)
    called,         \* the adapters main has called, in order
    chatData,       \* main's chatData
    written,        \* the documents handed to fs.writeFileSync, in order
    outputDirs      \* the directories that exist under the output folder

vars == <<now, name, maxLength, sanitized, timestamp, safe, chat, markdown,
          file, parsed, chats, saved, pc, dirCherry, dirChatbox, cherryFiles,
          chatboxFiles, selectedIndex, selection, called, chatData, written,
          outputDirs>>

sanitizeVars == <<name, maxLength, sanitized>>
timestampVars == <<timestamp, safe>>
renderVars == <<chat, markdown>>
parseVars == <<file, parsed>>
saveVars == <<chats, saved>>
mainVars == <<pc, dirCherry, dirChatbox, cherryFiles, chatboxFiles, selectedIndex,
              selection, called, chatData, written, outputDirs>>

-----------------------------------------------------------------------------
(* Bounds *)

MaxLen == 4          \* longest drawn file-name string
MaxTime == 5         \* latest instant (drawn timestamps and the clock)
DayLen == 2          \* minutes in a calendar day of the model
MaxMsgs == 3         \* most messages in a drawn session
MaxLog == 2          \* most entries in a drawn Cherry Studio log
MaxEntries == 2      \* most entries in a drawn ZIP archive
MaxChats == 2        \* most sessions handed to saveChatsToMarkdown
MaxFiles == 2        \* most files in an input directory
MaxSessions == 2     \* most sessions in a drawn Chatbox export

-----------------------------------------------------------------------------
(* Program constants *)

DefaultMaxLength == 50   \* sanitizeFileName(name, maxLength = 50)
SafeTitleLength == 50    \* .substring(0, 50) of saveChatsToMarkdown

-----------------------------------------------------------------------------
(* JavaScript values *)

Undefined == [kind |-> "undefined"]
Null == [kind |-> "null"]
Num(n) == [kind |-> "number", val |-> n]
Str(s) == [kind |-> "string", val |-> s]

\* The time value of an Invalid Date, and every date field read from one.
NaN == -1

\* A date string: DateString(t) is a string that Date parses to instant t,
\* DateString(NaN) a string that Date cannot parse.
DateString(t) == [kind |-> "string", val |-> t]

Arr(items) == [kind |-> "array", val |-> items]

\* How a call ends: a returned value, or an exception thrown to the caller.
Ok(v) == [kind |-> "ok", val |-> v]
Throw(e) == [kind |-> "throw", val |-> e]

NotCalled == [kind |-> "not called"]
\* The value a call returned, with the clock reading of the call.
Returned(v, clock) == [kind |-> "returned", at |-> clock, val |-> v]

\* ToBoolean of a timestamp-like value (number, date string, null, undefined).
Truthy(v) ==
    CASE v.kind = "undefined" -> FALSE
      [] v.kind = "null" -> FALSE
      [] v.kind = "number" -> v.val # 0 /\ v.val # NaN
      [] v.kind = "string" -> TRUE        \* every modelled date string is non-empty
      [] OTHER -> TRUE

-----------------------------------------------------------------------------
(* Timestamps *)

\* new Date(v).getTime(): undefined gives an Invalid Date, null the epoch,
\* a number itself, a string its parse (NaN when it does not parse).
NewDate(v) ==
    CASE v.kind = "undefined" -> NaN
      [] v.kind = "null" -> 0
      [] v.kind = "number" -> v.val
      [] v.kind = "string" -> v.val
      [] OTHER -> NaN

\* A validity test that forgets to reject dates later than the clock.
isValidTimestamp_NoFutureCheck(ts, clock) ==
    NewDate(ts) # NaN

isValidTimestamp(ts, clock) ==
    LET date == NewDate(ts)
    IN  date # NaN /\ date <= clock

getSafeTimestamp(ts, clock) ==
    IF isValidTimestamp(ts, clock) THEN ts ELSE Num(clock)

\* getFullYear/getMonth/getDate of an instant: its calendar day.
DayOf(t) == IF t = NaN THEN NaN ELSE t \div DayLen
\* getHours/getMinutes of an instant: its minute within the day.
MinuteOf(t) == IF t = NaN THEN NaN ELSE t % DayLen

\* `${year}-${month}-${day}_${hours}${minutes}`
formatDate(ts, clock) ==
    LET date == NewDate(getSafeTimestamp(ts, clock))
    IN  [fmt |-> "YYYY-MM-DD_HHMM", day |-> DayOf(date), minute |-> MinuteOf(date)]

\* { date: `${year}-${month}-${day}`, time: `${hours}:${minutes}` }
formatMessageDateTime(ts, clock) ==
    LET date == NewDate(getSafeTimestamp(ts, clock))
    IN  [date |-> DayOf(date), time |-> MinuteOf(date)]

-----------------------------------------------------------------------------
(* File names *)

Letters ==
    {"a","b","c","d","e","f","g","h","i","j","k","l","m",
     "n","o","p","q","r","s","t","u","v","w","x","y","z",
     "A","B","C","D","E","F","G","H","I","J","K","L","M",
     "N","O","P","Q","R","S","T","U","V","W","X","Y","Z"}
Digits == {"0","1","2","3","4","5","6","7","8","9"}

\* The complement of the class [^a-zA-Z0-9-_].
IsFileNameChar(c) == c \in Letters \cup Digits \cup {"-", "_"}

unnamed_chat == <<"u","n","n","a","m","e","d","_","c","h","a","t">>

\* .replace(/[^a-zA-Z0-9-_]/g, '_')
ReplaceInvalid(s) == [i \in 1..Len(s) |-> IF IsFileNameChar(s[i]) THEN s[i] ELSE "_"]

\* .replace(/_+/g, '_')
RECURSIVE CollapseUnderscores(_)
CollapseUnderscores(s) ==
    IF Len(s) <= 1 THEN s
    ELSE IF s[1] = "_" /\ s[2] = "_" THEN CollapseUnderscores(Tail(s))
    ELSE <<s[1]>> \o CollapseUnderscores(Tail(s))

RECURSIVE TrimLeft(_)
TrimLeft(s) == IF s # <<>> /\ s[1] = "_" THEN TrimLeft(Tail(s)) ELSE s

RECURSIVE TrimRight(_)
TrimRight(s) ==
    IF s # <<>> /\ s[Len(s)] = "_" THEN TrimRight(SubSeq(s, 1, Len(s) - 1)) ELSE s

\* .replace(/^_+|_+$/g, '')
TrimUnderscores(s) == TrimRight(TrimLeft(s))

\* s.substring(0, n)
Substring0(s, n) ==
    LET m == IF n < 0 THEN 0 ELSE IF n > Len(s) THEN Len(s) ELSE n
    IN  SubSeq(s, 1, m)

\* A sanitizer that forgets the placeholder for an empty result.
sanitizeFileName_NoPlaceholder(s, n) ==
    LET cleaned == TrimUnderscores(CollapseUnderscores(ReplaceInvalid(s)))
    IN  IF Len(cleaned) > n THEN Substring0(cleaned, n) ELSE cleaned

sanitizeFileName(s, n) ==
    LET cleaned == TrimUnderscores(CollapseUnderscores(ReplaceInvalid(s)))
        cut == IF Len(cleaned) > n THEN Substring0(cleaned, n) ELSE cleaned
    IN  IF cut = <<>> THEN unnamed_chat ELSE cut

-----------------------------------------------------------------------------
(* Markdown *)

\* The text convertChatToMarkdown builds, as the sequence of its lines.
DateHeading(date) == [kind |-> "## ", val |-> date]                    \* `## ${date}`
RoleHeading(label, time) == [kind |-> "### ", label |-> label, time |-> time]
                                                                       \* `### ${label} | ${time}`
Text(content) == [kind |-> "text", val |-> content]                   \* the content, verbatim
Blank == [kind |-> "blank"]                                            \* an empty line
FenceOpen == [kind |-> "fence system"]                                 \* three backticks, then `system`
FenceClose == [kind |-> "fence"]                                       \* three backticks
Marker(m) == [kind |-> "marker", val |-> m]                            \* {pictures}, {links}, ...
LinkLine(label, url) == [kind |-> "[]()", label |-> label, url |-> url]
BulletLinkLine(label, url) == [kind |-> "- []()", label |-> label, url |-> url]
WarningComment == [kind |-> "<!-- Warning: No messages found or invalid format -->"]

\* role.toUpperCase(), on the role strings the model draws.
ToUpperCase(r) ==
    CASE r = "user" -> "USER"
      [] r = "assistant" -> "ASSISTANT"
      [] r = "system" -> "SYSTEM"
      [] r = "System" -> "SYSTEM"
      [] r = "you" -> "YOU"
      [] r = "You" -> "YOU"
      [] r = "tool" -> "TOOL"
      [] r = "unknown" -> "UNKNOWN"
      [] OTHER -> r

\* ToBoolean of a text value: a non-empty string.
TruthyText(v) == v.kind = "string" /\ v.val # ""

\* `x && x.length > 0` for a value that is an array when it is present.
NonEmptyArray(v) == v.kind = "array" /\ Len(v.val) > 0

\* `link && link.url`
LinkHasUrl(link) == link # Null /\ TruthyText(link.url)

\* A label without the fallback to the URL, as it was before: a link
\* without title is labelled `undefined`.
LinkLabel_NoFallback(link) ==
    IF link.title.kind = "string" THEN link.title.val ELSE "undefined"

\* `${link.title || link.url}`
LinkLabel(link) == IF TruthyText(link.title) THEN link.title.val ELSE link.url.val

\* links.forEach(link => { if (link && link.url) markdown += `[..](..)\n` })
RECURSIVE LinkLines(_, _)
LinkLines(links, bullet) ==
    IF links = <<>> THEN <<>>
    ELSE LET link == Head(links)
             line == IF bullet THEN BulletLinkLine(LinkLabel(link), link.url.val)
                     ELSE LinkLine(LinkLabel(link), link.url.val)
         IN  (IF LinkHasUrl(link) THEN <<line>> ELSE <<>>) \o LinkLines(Tail(links), bullet)

\* A renderer without the guard, as it was before the guard was added.
SkipMessage_Never(msg) == FALSE

\* The guard that skips a message: `!msg || typeof msg.role !== 'string'`.
SkipMessage(msg) == msg = Null \/ msg.role.kind # "string"

\* A renderer that forgets the cursor and dates every message.
DateChanged_Always(date, lastDate) == TRUE

\* `date !== lastDate`
DateChanged(date, lastDate) == date # lastDate

\* A renderer that forgets the special case of system messages.
IsSystemRole_Never(role) == FALSE

\* `role === 'SYSTEM'`
IsSystemRole(role) == role = "SYSTEM"

\* lastDate = '' : equal to no date.
NoDate == -2

\* The body of the forEach callback for a message that is not skipped: the
\* lines it appends and the lastDate it leaves.
RenderMessage(msg, lastDate, clock) ==
    LET role == ToUpperCase(msg.role.val)
        ts == IF Truthy(msg.timestamp) THEN getSafeTimestamp(msg.timestamp, clock)
              ELSE Num(clock)
        dt == formatMessageDateTime(ts, clock)
        heading == IF DateChanged(dt.date, lastDate)
                   THEN <<DateHeading(dt.date), Blank>> ELSE <<>>
        content == IF TruthyText(msg.content) THEN msg.content.val ELSE ""
        label == IF role = "ASSISTANT"
                 THEN (IF TruthyText(msg.model) THEN msg.model.val ELSE "ASSISTANT")
                 ELSE role
        body ==
            IF IsSystemRole(role)
            THEN <<FenceOpen, Text(content), FenceClose, Blank>>
            ELSE <<RoleHeading(label, dt.time), Text(content)>>
                 \o (IF NonEmptyArray(msg.pictures) THEN <<Blank, Marker("{pictures}")>> ELSE <<>>)
                 \o (IF NonEmptyArray(msg.files) THEN <<Blank, Marker("{files}")>> ELSE <<>>)
                 \o (IF NonEmptyArray(msg.links)
                     THEN <<Blank, Marker("{links}")>> \o LinkLines(msg.links.val, FALSE)
                     ELSE <<>>)
                 \o (IF msg.webBrowsing.kind = "object" /\ NonEmptyArray(msg.webBrowsing.links)
                     THEN <<Blank, Marker("{web search links}")>>
                          \o LinkLines(msg.webBrowsing.links.val, TRUE)
                     ELSE <<>>)
    IN  [lines |-> heading \o body \o <<Blank>>,
         lastDate |-> IF DateChanged(dt.date, lastDate) THEN dt.date ELSE lastDate]

\* chat.messages.forEach(msg => ...) from message i on.  Reading the role
\* of a message that has none (msg.role.toUpperCase()) throws a TypeError.
RECURSIVE RenderFrom(_, _, _, _)
RenderFrom(msgs, i, lastDate, clock) ==
    IF i > Len(msgs) THEN Ok(<<>>)
    ELSE LET msg == msgs[i]
         IN  IF SkipMessage(msg) THEN RenderFrom(msgs, i + 1, lastDate, clock)
             ELSE IF msg = Null \/ msg.role.kind # "string" THEN Throw("TypeError")
             ELSE LET r == RenderMessage(msg, lastDate, clock)
                      rest == RenderFrom(msgs, i + 1, r.lastDate, clock)
                  IN  IF rest.kind = "throw" THEN rest ELSE Ok(r.lines \o rest.val)

\* `!chat || !Array.isArray(chat.messages)`
NoMessagesArray(c) == c = Null \/ c.messages.kind # "array"

convertChatToMarkdown(c, clock) ==
    IF NoMessagesArray(c) THEN Ok(<<WarningComment>>)
    ELSE RenderFrom(c.messages.val, 1, NoDate, clock)

-----------------------------------------------------------------------------
(* Files and the Cherry Studio adapter *)

\* The text of a file or of an archive entry is modelled by the value
\* JSON.parse gives for it; InvalidJson is a text JSON.parse rejects.
InvalidJson == [kind |-> "invalid json"]

\* A JSON object, with the properties the adapters read (an absent property
\* is Undefined; "chat-sessions" is written chatSessions).
JsonObject(title, name_, log, chatSessions, messages) ==
    [kind |-> "object", title |-> title, name |-> name_, log |-> log,
     chatSessions |-> chatSessions, messages |-> messages]

\* A Cherry Studio export: { title, log }.
CherryObject(title, log) == JsonObject(title, Undefined, log, Undefined, Undefined)

\* A Chatbox export: { "chat-sessions": [...] }.
ChatboxObject(chatSessions) ==
    JsonObject(Undefined, Undefined, Undefined, chatSessions, Undefined)

\* A Chatbox export of one chat: { title, messages }.
SingleChatObject(title, messages) ==
    JsonObject(title, Undefined, Undefined, Undefined, messages)

\* An element of "chat-sessions".
ChatboxSession(name_, threadName, messages) ==
    [name |-> name_, threadName |-> threadName, messages |-> messages]

\* An entry of a ZIP archive: whether entryName ends in '.json', whether it
\* is a directory, and its text.
ZipEntry(isJson, isDirectory, text) ==
    [isJson |-> isJson, isDirectory |-> isDirectory, text |-> text]

\* A file: the base name and extension of its path, whether it can be read
\* (opened as an archive, for a ZIP), its text, and its entries (for a ZIP).
File(base, ext, readable, text, entries) ==
    [base |-> base, ext |-> ext, readable |-> readable, text |-> text, entries |-> entries]

\* JSON.parse(text)
JsonParse(text) == IF text = InvalidJson THEN Throw("SyntaxError") ELSE Ok(text)

\* s.toLowerCase(), on the role strings the model draws.
ToLowerCase(r) ==
    CASE r = "You" -> "you"
      [] r = "YOU" -> "you"
      [] r = "User" -> "user"
      [] r = "Assistant" -> "assistant"
      [] r = "System" -> "system"
      [] OTHER -> r

\* new Date(v).toISOString(): a RangeError for an Invalid Date.
ToISOString(t) == IF t = NaN THEN Throw("RangeError") ELSE Ok(DateString(t))

\* The callback of jsonData.log.map: the message made from one log entry.
EntryToMessage(entry, clock) ==
    IF entry = Null THEN Throw("TypeError")                    \* entry.role of null
    ELSE IF ~TruthyText(entry.role) /\ entry.role.kind \notin {"undefined", "null", "string"}
         THEN Throw("TypeError")                               \* toLowerCase is not a function
    ELSE LET raw == IF TruthyText(entry.role) THEN entry.role.val ELSE "unknown"
             role == IF ToLowerCase(raw) = "you" THEN "user" ELSE ToLowerCase(raw)
             content == IF TruthyText(entry.content) THEN entry.content ELSE Str("")
             iso == IF Truthy(entry.timestamp) THEN ToISOString(NewDate(entry.timestamp))
                    ELSE ToISOString(clock)
         IN  IF iso.kind = "throw" THEN iso
             ELSE Ok([role |-> Str(role), timestamp |-> iso.val, content |-> content,
                      model |-> Undefined, pictures |-> Undefined, files |-> Undefined,
                      links |-> Undefined, webBrowsing |-> Undefined])

\* jsonData.log.map(entry => ...)
RECURSIVE MapLog(_, _)
MapLog(log, clock) ==
    IF log = <<>> THEN Ok(<<>>)
    ELSE LET m == EntryToMessage(Head(log), clock)
         IN  IF m.kind = "throw" THEN m
             ELSE LET rest == MapLog(Tail(log), clock)
                  IN  IF rest.kind = "throw" THEN rest ELSE Ok(<<m.val>> \o rest.val)

\* What an adapter call leaves: how it ended, and what it wrote to the console.
Outcome(result, console) == [result |-> result, console |-> console]

\* A variant that makes a session without messages when there is no log.
SessionsFromLog_EmptySession(jsonData, potentialTitle, clock) ==
    IF jsonData # Null /\ jsonData.kind = "object" /\ jsonData.log.kind = "array"
    THEN LET messages == MapLog(jsonData.log.val, clock)
         IN  IF messages.kind = "throw" THEN Outcome(messages, <<>>)
             ELSE Outcome(Ok(<<[title |-> potentialTitle, messages |-> Arr(messages.val)]>>),
                          <<"log: Parsed 1 chat session">>)
    ELSE Outcome(Ok(<<[title |-> potentialTitle, messages |-> Arr(<<>>)]>>), <<>>)

\* `if (jsonData && jsonData.log && Array.isArray(jsonData.log)) ... else warn`
SessionsFromLog(jsonData, potentialTitle, clock) ==
    IF jsonData # Null /\ jsonData.kind = "object" /\ jsonData.log.kind = "array"
    THEN LET messages == MapLog(jsonData.log.val, clock)
         IN  IF messages.kind = "throw" THEN Outcome(messages, <<>>)
             ELSE Outcome(Ok(<<[title |-> potentialTitle, messages |-> Arr(messages.val)]>>),
                          <<"log: Parsed 1 chat session">>)
    ELSE Outcome(Ok(<<>>), <<"warn: Could not find 'log' array">>)

\* `jsonData.title || potentialTitle`: reading a property of null throws.
TitleOf(jsonData, potentialTitle) ==
    IF jsonData = Null THEN Throw("TypeError")
    ELSE IF jsonData.kind = "object" /\ TruthyText(jsonData.title) THEN Ok(jsonData.title)
    ELSE Ok(potentialTitle)

\* zipEntries.find(entry => entry.entryName.endsWith('.json') && !entry.isDirectory)
RECURSIVE FindJsonEntry(_)
FindJsonEntry(entries) ==
    IF entries = <<>> THEN Undefined
    ELSE IF Head(entries).isJson /\ ~Head(entries).isDirectory THEN Head(entries)
    ELSE FindJsonEntry(Tail(entries))

\* The body of the try block once the text of the JSON has been read.
ParseJsonText(text, f, clock) ==
    LET jsonData == JsonParse(text)
        title == IF jsonData.kind = "throw" THEN jsonData
                 ELSE TitleOf(jsonData.val, Str(f.base))
    IN  IF title.kind = "throw" THEN Outcome(title, <<>>)
        ELSE SessionsFromLog(jsonData.val, title.val, clock)

\* The try block of parseCherryStudio.
TryParseCherryStudio(f, clock) ==
    IF f.ext = "zip"
    THEN IF ~f.readable THEN Outcome(Throw("Error"), <<>>)           \* new AdmZip(filePath)
         ELSE LET jsonEntry == FindJsonEntry(f.entries)
              IN  IF jsonEntry = Undefined
                  THEN Outcome(Ok(<<>>), <<"warn: No JSON file found in ZIP">>)
                  ELSE ParseJsonText(jsonEntry.text, f, clock)
    ELSE IF f.ext = "json"
    THEN IF ~f.readable THEN Outcome(Throw("Error"), <<>>)           \* fs.readFileSync
         ELSE ParseJsonText(f.text, f, clock)
    ELSE Outcome(Ok(<<>>), <<"warn: Unsupported file type for Cherry Studio">>)

\* parseCherryStudio: the settled value of the promise it returns.  The catch
\* clause turns every exception of the try block into an empty list.
parseCherryStudio(f, clock) ==
    LET tried == TryParseCherryStudio(f, clock)
    IN  IF tried.result.kind = "throw"
        THEN Outcome(Ok(<<>>), Append(tried.console, "error: Error parsing Cherry Studio file"))
        ELSE tried

-----------------------------------------------------------------------------
(* The Chatbox adapter *)

DigitChar(n) == <<"0","1","2","3","4","5","6","7","8","9">>[n + 1]

\* `Chatbox Session ${index + 1}`, for index + 1 < 10.
ChatboxSessionTitle(n) ==
    <<"C","h","a","t","b","o","x"," ","S","e","s","s","i","o","n"," ", DigitChar(n)>>

\* ToBoolean of a value read from JSON: a non-empty file-name string, an
\* array or an object.
TruthyValue(v) ==
    CASE v.kind = "undefined" -> FALSE
      [] v.kind = "null" -> FALSE
      [] v.kind = "string" -> v.val # <<>> /\ v.val # ""
      [] OTHER -> TRUE

\* The callback of data['chat-sessions'].map, for the session at position n.
SessionToChat(session, n) ==
    IF session = Null THEN Throw("TypeError")                  \* session.name of null
    ELSE Ok([title |-> IF TruthyValue(session.name) THEN session.name
                       ELSE IF TruthyValue(session.threadName) THEN session.threadName
                       ELSE Str(ChatboxSessionTitle(n)),
             messages |-> IF TruthyValue(session.messages) THEN session.messages
                          ELSE Arr(<<>>)])

\* data['chat-sessions'].map((session, index) => ...) from position n on.
RECURSIVE MapSessions(_, _)
MapSessions(sessions, n) ==
    IF n > Len(sessions) THEN Ok(<<>>)
    ELSE LET c == SessionToChat(sessions[n], n)
         IN  IF c.kind = "throw" THEN c
             ELSE LET rest == MapSessions(sessions, n + 1)
                  IN  IF rest.kind = "throw" THEN rest ELSE Ok(<<c.val>> \o rest.val)

\* parseChatbox: the settled value of the promise it returns; an exception
\* (unreadable file, invalid JSON, a null session) rejects the promise.
parseChatbox(f, clock) ==
    IF ~f.readable THEN Outcome(Throw("Error"), <<>>)          \* fs.readFileSync
    ELSE LET data == JsonParse(f.text)
         IN  IF data.kind = "throw" THEN Outcome(data, <<>>)
             ELSE IF data.val = Null THEN Outcome(Throw("TypeError"), <<>>)
             ELSE IF data.val.kind = "object" /\ data.val.chatSessions.kind = "array"
             THEN LET mapped == MapSessions(data.val.chatSessions.val, 1)
                  IN  Outcome(mapped, IF mapped.kind = "throw" THEN <<>>
                                     ELSE <<"log: Found chat sessions in Chatbox file">>)
             ELSE IF data.val.kind = "object" /\ data.val.messages.kind = "array"
             THEN Outcome(Ok(<<[title |-> IF TruthyValue(data.val.title) THEN data.val.title
                                          ELSE IF TruthyValue(data.val.name) THEN data.val.name
                                          ELSE Str(f.base),
                                messages |-> data.val.messages]>>),
                          <<"log: Found chat sessions in Chatbox file">>)
             ELSE Outcome(Ok(<<>>), <<"warn: Could not find expected 'chat-sessions' array",
                                      "log: Found chat sessions in Chatbox file">>)

-----------------------------------------------------------------------------
(* Writing the Markdown files *)

\* The class [<>:"/\\|?*.\s] of saveChatsToMarkdown.
IsReservedChar(c) == c \in {"<", ">", ":", "\"", "/", "\\", "|", "?", "*", ".", " ", "\t", "\n"}

\* title.replace(/[<>:"/\\|?*.\s]+/g, '_'): every run of reserved characters
\* becomes one underscore.
RECURSIVE ReplaceReservedRuns(_)
ReplaceReservedRuns(s) ==
    IF s = <<>> THEN <<>>
    ELSE IF IsReservedChar(s[1])
         THEN IF Len(s) >= 2 /\ IsReservedChar(s[2]) THEN ReplaceReservedRuns(Tail(s))
              ELSE <<"_">> \o ReplaceReservedRuns(Tail(s))
         ELSE <<s[1]>> \o ReplaceReservedRuns(Tail(s))

\* A file name `${date}_${time}_${title}.md`: the date and time fields of
\* the prefix and the title part.
FileName(day, minute, title) ==
    [prefix |-> [fmt |-> "YYYY-MM-DD_HHMM", day |-> day, minute |-> minute],
     title |-> title, ext |-> ".md"]

\* The stand-in content saveChatsToMarkdown writes: `# ${title}\n\n${fakeContent}`.
StubContent(title, fakeContent) ==
    [kind |-> "stub", title |-> title, fakeContent |-> fakeContent]

\* The body of the forEach callback of saveChatsToMarkdown up to the write:
\* the document made for the session at position i, or the exception thrown.
\* Drawn contents are shorter than 50 characters, so substring(0, 50) keeps
\* them whole.
SaveOne(c, i, clock) ==
    LET messages == c.messages
        nonEmpty == messages.kind \in {"array", "string"} /\ Len(messages.val) > 0
    IN  IF nonEmpty /\ messages.kind # "array" THEN Throw("TypeError")
        ELSE IF nonEmpty /\ (messages.val[1] = Null \/ messages.val[1].content.kind # "string")
        THEN Throw("TypeError")                        \* messages[0].content.substring
        ELSE IF c.title.kind # "string" THEN Throw("TypeError")    \* title.replace
        ELSE LET fakeContent == IF nonEmpty THEN <<"First message: ", messages.val[1].content.val, "...">>
                                ELSE <<"No messages">>
                 ts == IF nonEmpty /\ Truthy(messages.val[1].timestamp)
                       THEN messages.val[1].timestamp ELSE Num(clock)
                 date == NewDate(ts)
                 cut == Substring0(ReplaceReservedRuns(c.title.val), SafeTitleLength)
                 safeTitle == IF cut = <<>> THEN unnamed_chat ELSE cut
             IN  Ok([session |-> i,
                     fileName |-> FileName(DayOf(date), MinuteOf(date), safeTitle),
                     content |-> StubContent(c.title.val, fakeContent)])

\* chats.forEach(chat => ...) from position i on: the documents written and
\* how the loop ended.  `failing` holds the positions whose fs.writeFileSync
\* throws; that exception is caught and logged, any other ends the loop.
RECURSIVE SaveFrom(_, _, _, _)
SaveFrom(cs, i, clock, failing) ==
    IF i > Len(cs) THEN [result |-> Ok(Undefined), written |-> <<>>]
    ELSE LET one == SaveOne(cs[i], i, clock)
         IN  IF one.kind = "throw" THEN [result |-> one, written |-> <<>>]
             ELSE LET rest == SaveFrom(cs, i + 1, clock, failing)
                  IN  [result |-> rest.result,
                       written |-> (IF i \in failing THEN <<>> ELSE <<one.val>>) \o rest.written]

saveChatsToMarkdown(cs, clock, failing) == SaveFrom(cs, 1, clock, failing)

-----------------------------------------------------------------------------
(* The run: listing, menu and main *)

inputChatboxDir == "input_chatbox"
inputCheryDir == "input_cherry"
outputDir == <<"output">>

\* files.filter(...): '.json' and '.zip' in the Cherry Studio folder, '.json'
\* in the other.
RECURSIVE FilterByExt(_, _)
FilterByExt(files, exts) ==
    IF files = <<>> THEN <<>>
    ELSE (IF Head(files).ext \in exts THEN <<Head(files)>> ELSE <<>>)
         \o FilterByExt(Tail(files), exts)

listJsonFiles(files, inputDir) ==
    IF inputDir = inputCheryDir THEN FilterByExt(files, {"json", "zip"})
    ELSE FilterByExt(files, {"json"})

\* path.basename(filePath, '.json'): only a '.json' extension is removed.
BaseNameJson(f) == IF f.ext = "json" THEN f.base ELSE f.base \o <<".">> \o <<f.ext>>

\* obj[key] of a JavaScript object: Undefined for a property it does not have.
GetProp(obj, key) == IF key \in DOMAIN obj THEN obj[key] ELSE Undefined

\* The object showFileSelectionMenu resolves with.
Selection(filePath, type) == [filePath |-> filePath, type |-> type]

\* The type with the boundary one position late: the first Chatbox file is
\* tagged 'cherry'.
TypeOfIndex_OffByOne(index, cherryCount) ==
    IF index <= cherryCount THEN Str("cherry") ELSE Str("chatbox")

\* `const type = selectedIndex < cherryCount ? 'cherry' : 'chatbox'`
TypeOfIndex(index, cherryCount) ==
    IF index < cherryCount THEN Str("cherry") ELSE Str("chatbox")

\* The promise an async function returns, settled by how its body ended.
Promise(result) ==
    [kind |-> "promise",
     state |-> IF result.kind = "throw" THEN "rejected" ELSE "fulfilled",
     val |-> result.val]

\* `const { filePath, fileType } = selection`
FileTypeOf(sel) == GetProp(sel, "fileType")

-----------------------------------------------------------------------------
(* Drawn inputs *)

\* One character of each class the two sanitizers tell apart: a letter, a
\* digit, the hyphen, the underscore, characters both replace ('*', ' ',
\* '.') and one only sanitizeFileName replaces ('+').
Alphabet == {"a", "7", "-", "_", "*", " ", "+"}

RECURSIVE StringsUpTo(_)
StringsUpTo(n) ==
    IF n = 0 THEN {<<>>}
    ELSE LET shorter == StringsUpTo(n - 1)
         IN  shorter \cup {Append(s, c) : s \in {t \in shorter : Len(t) = n - 1}, c \in Alphabet}

Instants == 0..MaxTime

TimestampValues ==
    {Undefined, Null, DateString(NaN)}
        \cup {Num(t) : t \in Instants} \cup {DateString(t) : t \in Instants}

\* A message object as JSON.parse yields it; an absent property is Undefined.
Message(role, ts, content) ==
    [role |-> role, timestamp |-> ts, content |-> content, model |-> Undefined,
     pictures |-> Undefined, files |-> Undefined, links |-> Undefined,
     webBrowsing |-> Undefined]

\* One instant of every calendar day.
DayStarts == {t \in Instants : t % DayLen = 0}

RenderTimestamps == {Undefined, DateString(NaN)} \cup {DateString(t) : t \in DayStarts}

\* An assistant's reply with a model name, attachments and links.
RichMessage ==
    [Message(Str("assistant"), DateString(0), Str("Try Kyoto."))
        EXCEPT !.model = Str("gpt-4"),
               !.pictures = Arr(<<"p">>),
               !.links = Arr(<<[title |-> Str("Docs"), url |-> Str("https://x")],
                               [title |-> Undefined, url |-> Str("https://y")],
                               [title |-> Str("No url"), url |-> Undefined],
                               Null>>),
               !.webBrowsing = [kind |-> "object",
                                links |-> Arr(<<[title |-> Undefined, url |-> Str("https://w")]>>)]]

\* A system message with a command as content, and one that carries links.
SystemCommand == Message(Str("system"), Undefined, Str("ls -la"))
SystemWithLinks ==
    [Message(Str("system"), DateString(0), Str("note"))
        EXCEPT !.links = Arr(<<[title |-> Str("Docs"), url |-> Str("https://x")]>>)]

Messages ==
    {Null, RichMessage, Message(Null, DateString(0), Str("hello")),
     SystemCommand, SystemWithLinks}
        \cup {Message(r, ts, Str("hello")) :
                r \in {Undefined, Str("user"), Str("system")}, ts \in RenderTimestamps}

RECURSIVE SeqsUpTo(_, _)
SeqsUpTo(S, n) ==
    IF n = 0 THEN {<<>>}
    ELSE LET shorter == SeqsUpTo(S, n - 1)
         IN  shorter \cup {Append(q, x) : q \in {t \in shorter : Len(t) = n - 1}, x \in S}

\* A session as the renderer receives it.
Session(title, messages) == [title |-> title, messages |-> messages]

Chats ==
    {Null, Session("Trip", Undefined)}
        \cup {Session("Trip", Arr(ms)) : ms \in SeqsUpTo(Messages, MaxMsgs)}

\* Log entries of a Cherry Studio export.
LogEntry(role, content, ts) == [role |-> role, content |-> content, timestamp |-> ts]

LogEntries ==
    {Null, LogEntry(Num(5), Str("hi"), Undefined)}
        \cup {LogEntry(r, Str("hi"), ts) :
                r \in {Undefined, Str("You"), Str("Assistant")},
                ts \in {Undefined, DateString(0), DateString(MaxTime), DateString(NaN)}}

CherryPayloads ==
    {InvalidJson, Null, Num(5)}
        \cup {CherryObject(t, l) :
                t \in {Undefined, Str(<<"T">>)},
                l \in {Undefined, Str("x")}
                        \cup {Arr(es) : es \in SeqsUpTo(LogEntries, MaxLog)}}

\* The entries drawn for archives: documents, a directory, another file.
ZipEntries ==
    {ZipEntry(TRUE, TRUE, InvalidJson), ZipEntry(FALSE, FALSE, InvalidJson)}
        \cup {ZipEntry(TRUE, FALSE, p) :
                p \in {InvalidJson, Null, CherryObject(Undefined, Undefined),
                       CherryObject(Str(<<"T">>), Arr(<<LogEntry(Str("You"), Str("hi"), DateString(0))>>))}}

CherryFiles ==
    {File(<<"c">>, "json", TRUE, p, <<>>) : p \in CherryPayloads}
        \cup {File(<<"c">>, "zip", TRUE, InvalidJson, es) : es \in SeqsUpTo(ZipEntries, MaxEntries)}
        \cup {File(<<"c">>, "json", FALSE, InvalidJson, <<>>),
              File(<<"c">>, "zip", FALSE, InvalidJson, <<>>),
              File(<<"c">>, "txt", TRUE, InvalidJson, <<>>)}

\* Sessions as an adapter returns them.  The first message decides the
\* file name and the stand-in content, so the drawn sessions vary it.
FirstMessages ==
    {Null, Message(Str("user"), DateString(0), Undefined)}
        \cup {Message(Str("user"), ts, Str("hello")) : ts \in TimestampValues}

SavedTitles == {t \in StringsUpTo(MaxLen) : Len(t) <= 2}

SavedChats ==
    {Session(Str(t), ms) :
        t \in SavedTitles,
        ms \in {Arr(<<>>), Str(<<"x">>)} \cup {Arr(<<m>>) : m \in FirstMessages}}

\* The sessions drawn for lists of more than one session: one that is
\* saved, one without messages, and two whose first message makes
\* saveChatsToMarkdown throw.
ListedChats ==
    {Session(Str(<<"a">>), Arr(<<Message(Str("user"), DateString(0), Str("hello"))>>)),
     Session(Str(<<"*">>), Arr(<<>>)),
     Session(Str(<<"a">>), Arr(<<Message(Str("user"), DateString(0), Undefined)>>)),
     Session(Str(<<"-">>), Arr(<<Null>>))}

ChatLists == {<<c>> : c \in SavedChats} \cup SeqsUpTo(ListedChats, MaxChats)

\* The files drawn for input_cherry: an archive with an export, an export,
\* an archive without a JSON entry, and a file listJsonFiles leaves out.
CherryDirFiles ==
    {File(<<"z">>, "zip", TRUE, InvalidJson,
          <<ZipEntry(TRUE, FALSE,
                     CherryObject(Str(<<"T">>),
                                  Arr(<<LogEntry(Str("You"), Str("hi"), DateString(0)),
                                        LogEntry(Str("Assistant"), Str("hello"), Undefined)>>)))>>),
     File(<<"c">>, "json", TRUE,
          CherryObject(Undefined, Arr(<<LogEntry(Str("You"), Str("hi"), DateString(0))>>)), <<>>),
     File(<<"e">>, "zip", TRUE, InvalidJson, <<ZipEntry(FALSE, FALSE, InvalidJson)>>),
     File(<<"r">>, "txt", TRUE, InvalidJson, <<>>)}

\* The files drawn for input_chatbox: an export of two sessions, an export
\* of one chat, a file that is not JSON, and a file listJsonFiles leaves out.
ChatboxDirFiles ==
    {File(<<"a">>, "json", TRUE,
          ChatboxObject(Arr(<<ChatboxSession(Str(<<"T">>), Undefined,
                                             Arr(<<Message(Str("user"), DateString(0), Str("hello")),
                                                   Message(Str("assistant"), DateString(0), Str("hi"))>>)),
                              ChatboxSession(Undefined, Undefined, Undefined)>>)),
          <<>>),
     File(<<"b">>, "json", TRUE,
          SingleChatObject(Undefined, Arr(<<Message(Str("user"), Undefined, Str("hello"))>>)), <<>>),
     File(<<"x">>, "json", TRUE, InvalidJson, <<>>),
     File(<<"z">>, "zip", TRUE, InvalidJson, <<>>)}

-----------------------------------------------------------------------------
(* sanitizeFileName on every drawn name and maximum length *)

SanitizeIdle == name = <<>> /\ maxLength = 0 /\ sanitized = <<>>
TimestampIdle == timestamp = Undefined /\ safe = NotCalled
RenderIdle == chat = Null /\ markdown = NotCalled
ParseIdle == file = Null /\ parsed = NotCalled
SaveIdle == chats = <<>> /\ saved = NotCalled
MainIdle ==
    /\ pc = "idle"
    /\ dirCherry = <<>> /\ dirChatbox = <<>>
    /\ cherryFiles = <<>> /\ chatboxFiles = <<>>
    /\ selectedIndex = 0
    /\ selection = Undefined
    /\ called = <<>>
    /\ chatData = Undefined
    /\ written = <<>>
    /\ outputDirs = {}

InitSanitize ==
    /\ now = 0
    /\ name \in StringsUpTo(MaxLen)
    /\ maxLength \in 0..MaxLen
    /\ sanitized = <<>>
    /\ TimestampIdle
    /\ RenderIdle
    /\ ParseIdle
    /\ SaveIdle
    /\ MainIdle

\* sanitizeFileName(name, maxLength)
Sanitize ==
    /\ sanitized = <<>>
    /\ sanitized' = <<sanitizeFileName(name, maxLength)>>
    /\ UNCHANGED <<now, name, maxLength, timestampVars, renderVars, parseVars, saveVars, mainVars>>

\* sanitizeFileName(<the previous result>, maxLength)
SanitizeAgain ==
    /\ Len(sanitized) = 1
    /\ sanitized' = Append(sanitized, sanitizeFileName(sanitized[1], maxLength))
    /\ UNCHANGED <<now, name, maxLength, timestampVars, renderVars, parseVars, saveVars, mainVars>>

NextSanitize == Sanitize \/ SanitizeAgain

SpecSanitize == InitSanitize /\ [][NextSanitize]_vars

\* C5: sanitizeFileName is idempotent for every input and every maximum
\* length: sanitizing a result again, with the same maximum length, returns
\* that result unchanged, also when the first result was truncated.
C5_Idempotent ==
    Len(sanitized) = 2 => sanitized[2] = sanitized[1]

\* The name has no letter, digit or hyphen: it is empty, or made only of
\* underscores and of characters outside the file-name class.
OnlyJunk(s) == \A i \in 1..Len(s) : s[i] = "_" \/ ~IsFileNameChar(s[i])

\* C6: sanitizeFileName never returns the empty string, and returns the
\* placeholder 'unnamed_chat' for the empty string and for every name made
\* only of underscores and of characters outside {letters, digits, '-', '_'}.
C6_NeverEmpty ==
    /\ \A i \in 1..Len(sanitized) : sanitized[i] # <<>>
    /\ (Len(sanitized) >= 1 /\ OnlyJunk(name)) => sanitized[1] = unnamed_chat

\* sanitizeFileName("***") has returned the placeholder.
C6_Witness ==
    /\ name = <<"*", "*", "*">>
    /\ Len(sanitized) >= 1
    /\ sanitized[1] = unnamed_chat

-----------------------------------------------------------------------------
(* getSafeTimestamp on every drawn timestamp, at every clock reading *)

InitTimestamp ==
    /\ now \in Instants
    /\ timestamp \in TimestampValues
    /\ safe = NotCalled
    /\ SanitizeIdle
    /\ RenderIdle
    /\ ParseIdle
    /\ SaveIdle
    /\ MainIdle

\* Time passes.
Tick ==
    /\ now < MaxTime
    /\ now' = now + 1
    /\ UNCHANGED <<sanitizeVars, timestampVars, renderVars, parseVars, saveVars, mainVars>>

\* getSafeTimestamp(timestamp)
GetSafeTimestamp ==
    /\ safe' = Returned(getSafeTimestamp(timestamp, now), now)
    /\ UNCHANGED <<now, timestamp, sanitizeVars, renderVars, parseVars, saveVars, mainVars>>

NextTimestamp == Tick \/ GetSafeTimestamp

SpecTimestamp == InitTimestamp /\ [][NextTimestamp]_vars

\* The ways a timestamp can be, read off the value alone.
Missing(ts) == ts = Undefined
Unparsable(ts) == ts.kind = "string" /\ ts.val = NaN
ParsesAsDate(ts) == ts.kind \in {"number", "string"} /\ ts.val # NaN
LaterThan(ts, clock) == ParsesAsDate(ts) /\ ts.val > clock

-----------------------------------------------------------------------------
(* convertChatToMarkdown on every drawn session, at every clock reading *)

InitRender ==
    /\ now \in Instants
    /\ chat \in Chats
    /\ markdown = NotCalled
    /\ SanitizeIdle
    /\ TimestampIdle
    /\ ParseIdle
    /\ SaveIdle
    /\ MainIdle

\* convertChatToMarkdown(chat)
ConvertChatToMarkdown ==
    /\ markdown = NotCalled
    /\ markdown' = Returned(convertChatToMarkdown(chat, now), now)
    /\ UNCHANGED <<now, chat, sanitizeVars, timestampVars, parseVars, saveVars, mainVars>>

NextRender == ConvertChatToMarkdown

SpecRender == InitRender /\ [][NextRender]_vars

\* The message has a role.
HasRole(m) == m # Null /\ m.role.kind = "string"

\* The messages of a sequence that have a role, in order.
RECURSIVE WithRole(_)
WithRole(ms) ==
    IF ms = <<>> THEN <<>>
    ELSE (IF HasRole(Head(ms)) THEN <<Head(ms)>> ELSE <<>>) \o WithRole(Tail(ms))

\* The session with its role-less and null messages removed.
WithoutRoleless(c) == [c EXCEPT !.messages = Arr(WithRole(c.messages.val))]

\* The lines of one kind in a text, in order.
RECURSIVE LinesOfKind(_, _)
LinesOfKind(lines, k) ==
    IF lines = <<>> THEN <<>>
    ELSE (IF Head(lines).kind = k THEN <<Head(lines)>> ELSE <<>>)
         \o LinesOfKind(Tail(lines), k)

\* convertChatToMarkdown was applied to a session that has a messages array.
Rendered == markdown.kind = "returned" /\ ~(chat = Null \/ chat.messages.kind # "array")

\* C9: rendering skips exactly the messages that lack a role: the rendering
\* of a session is the rendering of the session without its role-less and
\* null messages, it does not fail, and every message that has a role has
\* its content line in the output.
C9_SkipsRoleless ==
    Rendered =>
        /\ markdown.val.kind = "ok"
        /\ markdown.val = convertChatToMarkdown(WithoutRoleless(chat), markdown.at)
        /\ Len(LinesOfKind(markdown.val.val, "text")) = Len(WithRole(chat.messages.val))

\* A session whose first message has no role and whose second has one was
\* rendered, and the second message is in the output.
C9_Witness ==
    /\ Rendered
    /\ Len(chat.messages.val) >= 2
    /\ ~HasRole(chat.messages.val[1])
    /\ HasRole(chat.messages.val[2])
    /\ markdown.val.kind = "ok"
    /\ Len(LinesOfKind(markdown.val.val, "text")) >= 1

\* The calendar date a message falls on at a clock reading: the date of its
\* timestamp, and today's date when the timestamp is missing, unparsable or
\* in the future.
MessageDay(m, clock) ==
    IF ParsesAsDate(m.timestamp) /\ m.timestamp.val <= clock
    THEN m.timestamp.val \div DayLen
    ELSE clock \div DayLen

\* The dates of the messages that have a role, in message order.
MessageDays(c, clock) ==
    LET ms == WithRole(c.messages.val)
    IN  [i \in 1..Len(ms) |-> MessageDay(ms[i], clock)]

\* A sequence without its repetitions: each value where it first occurs.
RECURSIVE FirstOccurrences(_)
FirstOccurrences(q) ==
    IF q = <<>> THEN <<>>
    ELSE LET init == SubSeq(q, 1, Len(q) - 1)
             last == q[Len(q)]
         IN  IF \E i \in 1..Len(init) : init[i] = last
             THEN FirstOccurrences(init)
             ELSE Append(FirstOccurrences(init), last)

\* The dates of the level-2 headings of a text, in order.
HeadingDates(lines) ==
    LET hs == LinesOfKind(lines, "## ") IN [i \in 1..Len(hs) |-> hs[i].val]

\* No date comes back after another date has come in between.
Grouped(q) ==
    \A i, j, k \in 1..Len(q) : (i < j /\ j < k /\ q[i] = q[k]) => q[j] = q[i]

TwoDates(c, clock) ==
    LET days == MessageDays(c, clock)
    IN  Cardinality({days[i] : i \in 1..Len(days)}) = 2

\* C4 as claimed: a session whose messages fall on exactly two calendar
\* dates, in any order of the messages, is rendered with exactly two date
\* headings, one per date, in the order in which each date first occurs.
C4_TwoHeadingsAnyOrder ==
    (Rendered /\ TwoDates(chat, markdown.at)) =>
        /\ markdown.val.kind = "ok"
        /\ HeadingDates(markdown.val.val) = FirstOccurrences(MessageDays(chat, markdown.at))

\* C4 amended: a session whose messages fall on exactly two calendar dates,
\* all messages of one date before all messages of the other, is rendered
\* with exactly two date headings, one per date, in the order in which each
\* date first occurs.
C4_TwoHeadingsWhenGrouped ==
    (Rendered /\ TwoDates(chat, markdown.at) /\ Grouped(MessageDays(chat, markdown.at))) =>
        /\ markdown.val.kind = "ok"
        /\ Len(HeadingDates(markdown.val.val)) = 2
        /\ HeadingDates(markdown.val.val) = FirstOccurrences(MessageDays(chat, markdown.at))

\* A session of three dated messages, two on one date and then one on
\* another, was rendered with two date headings.
C4_Witness ==
    /\ Rendered
    /\ Len(MessageDays(chat, markdown.at)) = 3
    /\ TwoDates(chat, markdown.at)
    /\ Grouped(MessageDays(chat, markdown.at))
    /\ markdown.val.kind = "ok"
    /\ Len(HeadingDates(markdown.val.val)) = 2

\* The system messages of a sequence, in order.
RECURSIVE SystemMessages(_)
SystemMessages(ms) ==
    IF ms = <<>> THEN <<>>
    ELSE (IF HasRole(Head(ms)) /\ Head(ms).role.val \in {"system", "System", "SYSTEM"}
          THEN <<Head(ms)>> ELSE <<>>) \o SystemMessages(Tail(ms))

\* The positions of a line in a text, in increasing order.
RECURSIVE PositionsFrom(_, _, _)
PositionsFrom(lines, i, line) ==
    IF i > Len(lines) THEN <<>>
    ELSE (IF lines[i] = line THEN <<i>> ELSE <<>>) \o PositionsFrom(lines, i + 1, line)

\* The content of a message as text: empty when the message has none.
ContentText(m) == IF m.content.kind = "string" THEN m.content.val ELSE ""

HasLinks(m) == m.links.kind = "array" /\ Len(m.links.val) > 0

\* The link entry has a URL.
HasUrl(link) == link # Null /\ link.url.kind = "string" /\ link.url.val # ""

\* The lines a `links` sequence should give: `[title or url](url)` for each
\* entry that has a URL, in entry order.
RECURSIVE ExpectedLinkLines(_)
ExpectedLinkLines(links) ==
    IF links = <<>> THEN <<>>
    ELSE LET l == Head(links)
             label == IF l.title.kind = "string" /\ l.title.val # "" THEN l.title.val
                      ELSE l.url.val
         IN  (IF HasUrl(l) THEN <<[kind |-> "[]()", label |-> label, url |-> l.url.val]>>
              ELSE <<>>) \o ExpectedLinkLines(Tail(links))

\* The lines of kind k that follow position i without interruption.
RECURSIVE RunAfter(_, _, _)
RunAfter(lines, i, k) ==
    IF i + 1 <= Len(lines) /\ lines[i + 1].kind = k
    THEN <<lines[i + 1]>> \o RunAfter(lines, i + 1, k)
    ELSE <<>>

\* For each `{links}` marker line of a text, the link lines right after it.
LinkBlocks(lines) ==
    LET at == PositionsFrom(lines, 1, Marker("{links}"))
    IN  [j \in 1..Len(at) |-> RunAfter(lines, at[j], "[]()")]

\* The link lines expected for each of the messages, in order.
ExpectedBlocks(ms) == [j \in 1..Len(ms) |-> ExpectedLinkLines(ms[j].links.val)]

RECURSIVE WithLinks(_)
WithLinks(ms) ==
    IF ms = <<>> THEN <<>>
    ELSE (IF HasLinks(Head(ms)) THEN <<Head(ms)>> ELSE <<>>) \o WithLinks(Tail(ms))

RECURSIVE NonSystem(_)
NonSystem(ms) ==
    IF ms = <<>> THEN <<>>
    ELSE (IF Head(ms).role.val \notin {"system", "System", "SYSTEM"} THEN <<Head(ms)>>
          ELSE <<>>) \o NonSystem(Tail(ms))

\* C12 as claimed: every rendered message with a non-empty `links` sequence
\* has a `{links}` marker line followed by exactly one line
\* `[title or url](url)` per entry that has a URL, in entry order.
C12_LinksOfEveryMessage ==
    (Rendered /\ markdown.val.kind = "ok") =>
        LinkBlocks(markdown.val.val) = ExpectedBlocks(WithLinks(WithRole(chat.messages.val)))

\* C12 amended: every rendered message that is not a system message and has
\* a non-empty `links` sequence has a `{links}` marker line followed by
\* exactly one line `[title or url](url)` per entry that has a URL, in entry
\* order, the URL being the label when the title is absent; entries without
\* a URL give no line, and there is no other `{links}` marker.
C12_LinksOfNonSystemMessages ==
    (Rendered /\ markdown.val.kind = "ok") =>
        LinkBlocks(markdown.val.val)
            = ExpectedBlocks(WithLinks(NonSystem(WithRole(chat.messages.val))))

\* A message with four link entries, two of them with a URL and one of
\* these without title, was rendered with two link lines under its marker.
C12_Witness ==
    /\ Rendered
    /\ chat.messages.val = <<RichMessage>>
    /\ markdown.val.kind = "ok"
    /\ LinkBlocks(markdown.val.val)
          = << <<LinkLine("Docs", "https://x"), LinkLine("https://y", "https://y")>> >>

-----------------------------------------------------------------------------
(* parseCherryStudio on every drawn file, at every clock reading *)

InitParse ==
    /\ now \in Instants
    /\ file \in CherryFiles
    /\ parsed = NotCalled
    /\ SanitizeIdle
    /\ TimestampIdle
    /\ RenderIdle
    /\ SaveIdle
    /\ MainIdle

\* parseCherryStudio(filePath)
ParseCherryStudio ==
    /\ parsed = NotCalled
    /\ parsed' = Returned(parseCherryStudio(file, now), now)
    /\ UNCHANGED <<now, file, sanitizeVars, timestampVars, renderVars, saveVars, mainVars>>

NextParse == ParseCherryStudio

SpecParse == InitParse /\ [][NextParse]_vars

\* The archive can be opened and holds no JSON entry.
ArchiveWithoutJson(f) ==
    /\ f.ext = "zip"
    /\ f.readable
    /\ \A i \in 1..Len(f.entries) : ~(f.entries[i].isJson /\ ~f.entries[i].isDirectory)

\* The JSON texts the file may hold: its own text, or those of the JSON
\* entries of the archive.
JsonTexts(f) ==
    IF f.ext = "json" /\ f.readable THEN {f.text}
    ELSE IF f.ext = "zip" /\ f.readable
    THEN {f.entries[i].text : i \in {j \in 1..Len(f.entries) :
                                        f.entries[j].isJson /\ ~f.entries[j].isDirectory}}
    ELSE {}

\* A JSON value without a `log` array.
WithoutLog(v) == v = Null \/ v.kind # "object" \/ v.log.kind # "array"

\* The file holds JSON, and no JSON value in it has a `log` array.
PayloadWithoutLog(f) ==
    /\ JsonTexts(f) # {}
    /\ \A t \in JsonTexts(f) : t # InvalidJson /\ WithoutLog(t)

\* C10: parseCherryStudio never throws on a schema mismatch: for an archive
\* without a JSON entry and for a JSON payload without a `log` array it
\* returns an empty session list, with a warning or error on the console.
C10_NoThrowOnMismatch ==
    parsed.kind = "returned" =>
        /\ parsed.val.result.kind = "ok"
        /\ (ArchiveWithoutJson(file) \/ PayloadWithoutLog(file)) =>
                /\ parsed.val.result = Ok(<<>>)
                /\ parsed.val.console # <<>>

\* parseCherryStudio has returned the empty list for an archive whose two
\* entries are not JSON documents.
C10_Witness ==
    /\ parsed.kind = "returned"
    /\ ArchiveWithoutJson(file)
    /\ Len(file.entries) = 2
    /\ parsed.val.result = Ok(<<>>)

\* The JSON text the adapter reads from a readable file: the file's own
\* text, or the text of the first JSON entry of the archive.
PayloadOf(f) ==
    IF f.ext = "json" THEN f.text
    ELSE LET js == {j \in 1..Len(f.entries) : f.entries[j].isJson /\ ~f.entries[j].isDirectory}
         IN  f.entries[CHOOSE j \in js : \A k \in js : j <= k].text

\* The file holds a Format-B payload with a `log` array.
HasLog(f) ==
    /\ f.readable
    /\ f.ext = "json" \/ (f.ext = "zip" /\ ~ArchiveWithoutJson(f))
    /\ PayloadOf(f) \notin {InvalidJson, Null}
    /\ PayloadOf(f).kind = "object"
    /\ PayloadOf(f).log.kind = "array"

\* A log entry that is an object whose role, when it has one, is a string.
WellFormedEntry(e) == e # Null /\ e.role.kind \in {"undefined", "string"}

\* C13: a payload with a `log` array of k entries gives exactly one session
\* of k messages in log order, also when a timestamp is absent, unparsable
\* or in the future; each message has the entry's content and a timestamp
\* that is a date, the role 'you' has become 'user' and any other role is
\* lowercased.
C13_OneSessionPerLog ==
    (parsed.kind = "returned" /\ HasLog(file)
        /\ \A i \in 1..Len(PayloadOf(file).log.val) : WellFormedEntry(PayloadOf(file).log.val[i])) =>
        LET log == PayloadOf(file).log.val
            result == parsed.val.result
        IN  /\ result.kind = "ok"
            /\ Len(result.val) = 1
            /\ Len(result.val[1].messages.val) = Len(log)
            /\ \A i \in 1..Len(log) :
                  LET m == result.val[1].messages.val[i]
                  IN  /\ m.content = log[i].content
                      /\ m.timestamp.kind = "string" /\ m.timestamp.val # NaN
                      /\ log[i].role = Str("You") => m.role = Str("user")
                      /\ log[i].role = Str("Assistant") => m.role = Str("assistant")

-----------------------------------------------------------------------------
(* parseChatbox on every drawn export, and convertChatToMarkdown on a
   session it returns *)

\* The `messages` property of the drawn sessions: absent, null, an empty
\* string, a string, an empty array and an array of one message.
SessionMessages ==
    {Undefined, Null, Str(<<>>), Str(<<"x">>), Arr(<<>>),
     Arr(<<Message(Str("user"), DateString(0), Str("hello"))>>)}

\* The elements drawn for "chat-sessions".
ChatboxSessions ==
    {Null} \cup {ChatboxSession(n, Undefined, ms) :
                    n \in {Undefined, Str(<<"T">>)}, ms \in SessionMessages}

ChatboxFiles ==
    {File(<<"a">>, "json", TRUE, ChatboxObject(Arr(ss)), <<>>) :
        ss \in SeqsUpTo(ChatboxSessions, MaxSessions)}
        \cup {File(<<"b">>, "json", TRUE, SingleChatObject(Undefined, ms), <<>>) :
                ms \in SessionMessages}
        \cup {File(<<"x">>, "json", TRUE, InvalidJson, <<>>),
              File(<<"x">>, "json", FALSE, InvalidJson, <<>>)}

InitChatbox ==
    /\ now \in Instants
    /\ file \in ChatboxFiles
    /\ parsed = NotCalled
    /\ SanitizeIdle
    /\ TimestampIdle
    /\ RenderIdle
    /\ SaveIdle
    /\ MainIdle

\* parseChatbox(filePath)
ParseChatbox ==
    /\ parsed = NotCalled
    /\ parsed' = Returned(parseChatbox(file, now), now)
    /\ UNCHANGED <<now, file, sanitizeVars, timestampVars, renderVars, saveVars, mainVars>>

\* convertChatToMarkdown(chat), for one of the sessions parseChatbox returned.
RenderParsed ==
    /\ parsed.kind = "returned"
    /\ parsed.val.result.kind = "ok"
    /\ markdown = NotCalled
    /\ \E i \in 1..Len(parsed.val.result.val) :
          /\ chat' = parsed.val.result.val[i]
          /\ markdown' = Returned(convertChatToMarkdown(parsed.val.result.val[i], now), now)
    /\ UNCHANGED <<now, file, parsed, sanitizeVars, timestampVars, saveVars, mainVars>>

NextChatbox == ParseChatbox \/ RenderParsed

SpecChatbox == InitChatbox /\ [][NextChatbox]_vars

\* The file is an export with a "chat-sessions" array of session objects.
HasSessions(f) ==
    /\ f.readable
    /\ f.text \notin {InvalidJson, Null}
    /\ f.text.chatSessions.kind = "array"
    /\ \A i \in 1..Len(f.text.chatSessions.val) : f.text.chatSessions.val[i] # Null

\* The positions of the sessions of the export that have no `messages`
\* array: the property is missing or is not an array.
WithoutMessagesArray(f) ==
    {i \in 1..Len(f.text.chatSessions.val) : f.text.chatSessions.val[i].messages.kind # "array"}

\* C14: a Format-A session without a `messages` array is no hard failure
\* (parseChatbox returns one session for each session of the export) and
\* the document rendered for it is the warning placeholder only.
C14_PlaceholderOnly ==
    (parsed.kind = "returned" /\ HasSessions(file)) =>
        /\ parsed.val.result.kind = "ok"
        /\ Len(parsed.val.result.val) = Len(file.text.chatSessions.val)
        /\ \A i \in WithoutMessagesArray(file) :
              (markdown.kind = "returned" /\ chat = parsed.val.result.val[i]) =>
                  markdown.val = Ok(<<WarningComment>>)

-----------------------------------------------------------------------------
(* saveChatsToMarkdown on every drawn session list, at every clock reading *)

InitSave ==
    /\ now \in Instants
    /\ chats \in ChatLists
    /\ saved = NotCalled
    /\ SanitizeIdle
    /\ TimestampIdle
    /\ RenderIdle
    /\ ParseIdle
    /\ MainIdle

\* saveChatsToMarkdown(chats, targetDir), with fs.writeFileSync failing for
\* any of the documents.
SaveChatsToMarkdown ==
    /\ saved = NotCalled
    /\ \E failing \in SUBSET (1..Len(chats)) :
          LET r == saveChatsToMarkdown(chats, now, failing)
          IN  saved' = Returned([result |-> r.result, written |-> r.written,
                                 failing |-> failing], now)
    /\ UNCHANGED <<now, chats, sanitizeVars, timestampVars, renderVars, parseVars, mainVars>>

NextSave == SaveChatsToMarkdown

SpecSave == InitSave /\ [][NextSave]_vars

\* The session at position i has a document among those written.
HasDocument(docs, i) == \E j \in 1..Len(docs) : docs[j].session = i

\* C3: a session whose own naming, rendering and writing do not fail has its
\* document produced, whichever other session of the list fails and wherever
\* that session is in the list.
C3_FailureIsolation ==
    saved.kind = "returned" =>
        \A i \in 1..Len(chats) :
            (SaveOne(chats[i], i, saved.at).kind = "ok" /\ i \notin saved.val.failing)
                => HasDocument(saved.val.written, i)

\* The file name the session should get: the YYYY-MM-DD_HHMM formatting of
\* the first message's normalized timestamp (of the current time when there
\* is no message), and the title sanitized by sanitizeFileName.
ExpectedFileName(c, clock) ==
    LET first == IF c.messages.kind = "array" /\ Len(c.messages.val) > 0
                 THEN c.messages.val[1].timestamp ELSE Undefined
    IN  [prefix |-> formatDate(first, clock),
         title |-> sanitizeFileName(c.title.val, DefaultMaxLength),
         ext |-> ".md"]

\* C8: every document written is named `<datePrefix>_<sanitizedTitle>.md`,
\* the prefix formatted from the first message's normalized timestamp (a
\* missing, unparsable or future one replaced by the current time; the
\* current time when the session has no messages) and the title sanitized
\* by sanitizeFileName.
C8_FileName ==
    saved.kind = "returned" =>
        \A j \in 1..Len(saved.val.written) :
            LET doc == saved.val.written[j]
            IN  doc.fileName = ExpectedFileName(chats[doc.session], saved.at)

-----------------------------------------------------------------------------
(* A run of convert.js *)

Init ==
    /\ now \in Instants
    /\ pc = "start"
    /\ dirCherry \in SeqsUpTo(CherryDirFiles, MaxFiles)
    /\ dirChatbox \in SeqsUpTo(ChatboxDirFiles, MaxFiles)
    /\ cherryFiles = <<>> /\ chatboxFiles = <<>>
    /\ selectedIndex = 0
    /\ selection = Undefined
    /\ called = <<>>
    /\ chatData = Undefined
    /\ written = <<>>
    /\ outputDirs = {}
    /\ SanitizeIdle
    /\ TimestampIdle
    /\ RenderIdle
    /\ ParseIdle
    /\ SaveIdle

harnessVars == <<sanitizeVars, timestampVars, renderVars, parseVars, saveVars>>

\* main() up to `await showFileSelectionMenu(...)`, and the menu's set-up.
MainStart ==
    /\ pc = "start"
    /\ outputDirs' = {outputDir}
    /\ cherryFiles' = listJsonFiles(dirCherry, inputCheryDir)
    /\ chatboxFiles' = listJsonFiles(dirChatbox, inputChatboxDir)
    /\ pc' = IF Len(cherryFiles') = 0 /\ Len(chatboxFiles') = 0 THEN "done" ELSE "menu"
    /\ selectedIndex' = 0
    /\ UNCHANGED <<now, dirCherry, dirChatbox, selection, called, chatData, written,
                   harnessVars>>

\* keypressHandler, key.name === 'up'
KeyUp ==
    /\ pc = "menu"
    /\ selectedIndex' = IF selectedIndex > 0 THEN selectedIndex - 1 ELSE selectedIndex
    /\ UNCHANGED <<now, pc, dirCherry, dirChatbox, cherryFiles, chatboxFiles, selection,
                   called, chatData, written, outputDirs, harnessVars>>

\* keypressHandler, key.name === 'down'
KeyDown ==
    /\ pc = "menu"
    /\ selectedIndex' = IF selectedIndex < Len(cherryFiles \o chatboxFiles) - 1
                        THEN selectedIndex + 1 ELSE selectedIndex
    /\ UNCHANGED <<now, pc, dirCherry, dirChatbox, cherryFiles, chatboxFiles, selection,
                   called, chatData, written, outputDirs, harnessVars>>

\* keypressHandler, key.ctrl && key.name === 'c': process.exit()
KeyCtrlC ==
    /\ pc = "menu"
    /\ pc' = "exited"
    /\ UNCHANGED <<now, dirCherry, dirChatbox, cherryFiles, chatboxFiles, selectedIndex,
                   selection, called, chatData, written, outputDirs, harnessVars>>

\* keypressHandler, key.name === 'return': the listener is removed and the
\* promise resolved.
KeyReturn ==
    /\ pc = "menu"
    /\ selection' = Selection((cherryFiles \o chatboxFiles)[selectedIndex + 1],
                              TypeOfIndex(selectedIndex, Len(cherryFiles)))
    /\ pc' = "selected"
    /\ UNCHANGED <<now, dirCherry, dirChatbox, cherryFiles, chatboxFiles, selectedIndex,
                   called, chatData, written, outputDirs, harnessVars>>

\* main() from the resolved selection to its end.  The adapters are async
\* and are not awaited: chatData is the promise, an exception of the adapter
\* rejects it and never reaches main's catch.
MainProcess ==
    /\ pc = "selected"
    /\ LET filePath == GetProp(selection, "filePath")
           isCherry == FileTypeOf(selection) = Str("cherry")
           outcome == IF isCherry THEN parseCherryStudio(filePath, now)
                      ELSE parseChatbox(filePath, now)
           data == Promise(outcome.result)
           targetOutputDir == IF isCherry THEN outputDir
                              ELSE Append(outputDir, BaseNameJson(filePath))
       IN  /\ called' = Append(called, IF isCherry THEN "parseCherryStudio" ELSE "parseChatbox")
           /\ chatData' = data
           /\ outputDirs' = outputDirs \cup {targetOutputDir}
           /\ IF NonEmptyArray(data)                   \* chatData && chatData.length > 0
              THEN \E failing \in SUBSET (1..Len(data.val)) :
                      written' = written \o saveChatsToMarkdown(data.val, now, failing).written
              ELSE written' = written
    /\ pc' = "done"
    /\ UNCHANGED <<now, dirCherry, dirChatbox, cherryFiles, chatboxFiles, selectedIndex,
                   selection, harnessVars>>

Next == MainStart \/ KeyUp \/ KeyDown \/ KeyCtrlC \/ KeyReturn \/ MainProcess

Spec == Init /\ [][Next]_vars

\* C1: the adapter main calls is the one of the selection's declared format:
\* parseCherryStudio for a file chosen from the Cherry Studio list,
\* parseChatbox for one chosen from the Chatbox list, and no other.
C1_MatchingAdapter ==
    (pc = "done" /\ selection # Undefined) =>
        called = <<IF selection.type = Str("cherry") THEN "parseCherryStudio"
                   ELSE "parseChatbox">>

\* The sessions the selected file holds, read by the adapter of its format.
SessionsOf(sel, clock) ==
    LET outcome == IF sel.type = Str("cherry") THEN parseCherryStudio(sel.filePath, clock)
                   ELSE parseChatbox(sel.filePath, clock)
    IN  IF outcome.result.kind = "ok" THEN outcome.result.val ELSE <<>>

\* C2: when the selected file holds N >= 1 sessions, a run hands N documents
\* to the writer, one per session in session order, each with the output of
\* convertChatToMarkdown for its session as content.
C2_OneDocumentPerSession ==
    (pc = "done" /\ selection # Undefined) =>
        LET sessions == SessionsOf(selection, now)
        IN  Len(sessions) >= 1 =>
                /\ Len(written) = Len(sessions)
                /\ \A i \in 1..Len(written) :
                      Ok(written[i].content) = convertChatToMarkdown(sessions[i], now)

\* The files the menu lists: the Cherry Studio files, then the Chatbox files.
allFiles == cherryFiles \o chatboxFiles

\* The selected index is a position of the list.
IndexInRange == selectedIndex \in 0..(Len(allFiles) - 1)

\* The resolved selection is the listed file at the selected index, tagged
\* by the list that file comes from.
SelectionAtIndex ==
    /\ IndexInRange
    /\ selection.filePath = allFiles[selectedIndex + 1]
    /\ selection.type = (IF selectedIndex + 1 <= Len(cherryFiles) THEN Str("cherry")
                         ELSE Str("chatbox"))

\* C15: while the menu is shown, after any UP and DOWN key presses, the
\* selected index is within 0..(number of listed files - 1); the selection
\* resolved on ENTER is the listed file at that index, typed 'cherry'
\* exactly when the index falls in the Cherry Studio list and 'chatbox'
\* otherwise; and once resolved the selection never changes.
C15_MenuSelection ==
    /\ [](pc = "menu" => IndexInRange)
    /\ [](selection # Undefined => SelectionAtIndex)
    /\ [][selection # Undefined => selection' = selection]_vars

\* ENTER was pressed after DOWN moved the cursor from the Cherry Studio list
\* into the Chatbox list.
C15_Witness ==
    /\ pc = "selected"
    /\ Len(cherryFiles) >= 1
    /\ selectedIndex = Len(cherryFiles)
    /\ selection.type = Str("chatbox")

====
